---- MODULE Spec2Model ----
(***************************************************************************)
(* State-machine model of the chat page (frontend/app/page.tsx, kept in    *)
(* src/frontend/app/api/constants.ts from line 6 on) and of its proxy      *)
(* routes.  Text is modelled as a sequence of one-character strings, so    *)
(* that includes/match/trim are computed character by character; fixed     *)
(* texts that are only ever compared as a whole (the failure notice, the   *)
(* default system messages, the default keys, the quick-action messages)   *)
(* are sequences of one element holding the whole text.                    *)
(*                                                                         *)
(* React state is the state committed after each handler step.  An async   *)
(* handler is cut at its awaits; what it reads from the component scope    *)
(* after an await is the value captured when the handler was called.       *)
(***************************************************************************)
EXTENDS Integers, Sequences, FiniteSets, TLC

\* ------------------------------------------------------------------ bounds
MaxTurns  == 2      \* handleSubmit invocations that pass validation
MaxRequestTurns == 1   \* the same, where every input of the page is edited
MaxChunks == 3      \* stream fragments read, over all turns
MaxDocOps == 2      \* uploads and deletes started
MaxPieces == 4      \* pieces a stream text of the fragmentation study is built from
MaxBodyChunks == 2  \* fragments of a backend response body handed to the chat-pdf route

\* ------------------------------------------------------------------ text
Sentinel == <<"_","_","T","O","O","L","_","U","S","A","G","E","_","_">>

Whitespace == {" "}

IsBlankChar(c) == c \in Whitespace

\* s[a..b], empty when a > b
Slice(s, a, b) == [k \in 1..(b - a + 1) |-> s[a + k - 1]]

\* String.prototype.trim
RECURSIVE TrimLeft(_)
TrimLeft(s) == IF s # <<>> /\ IsBlankChar(Head(s)) THEN TrimLeft(Tail(s)) ELSE s

RECURSIVE TrimRight(_)
TrimRight(s) ==
  IF s # <<>> /\ IsBlankChar(s[Len(s)]) THEN TrimRight(Slice(s, 1, Len(s) - 1)) ELSE s

Trim(s) == TrimRight(TrimLeft(s))

\* pat occurs in s at position i
OccursAt(s, pat, i) ==
  /\ i >= 1
  /\ i + Len(pat) - 1 <= Len(s)
  /\ \A k \in 1..Len(pat) : s[i + k - 1] = pat[k]

Occurrences(s, pat) == {i \in 1..Len(s) : OccursAt(s, pat, i)}

Min(S) == CHOOSE x \in S : \A y \in S : x <= y

\* String.prototype.includes
Includes(s, pat) == Occurrences(s, pat) # {}

\* s is a prefix of t
IsPrefix(s, t) == Len(s) <= Len(t) /\ \A k \in 1..Len(s) : s[k] = t[k]

\* chunk.match(/__TOOL_USAGE__(.+?)__TOOL_USAGE__/): the leftmost opening
\* sentinel, then the shortest non-empty name followed by a sentinel.
\* Result: [found |-> BOOLEAN, name |-> capture group 1, from, to |-> span].
NoMatch == [found |-> FALSE, name |-> <<>>, from |-> 0, to |-> 0]

ToolMatch(chunk) ==
  LET opens == {i \in Occurrences(chunk, Sentinel) :
                  \E j \in Occurrences(chunk, Sentinel) : j >= i + Len(Sentinel) + 1}
  IN IF opens = {} THEN NoMatch
     ELSE LET i == Min(opens)
              j == Min({q \in Occurrences(chunk, Sentinel) : q >= i + Len(Sentinel) + 1})
          IN [found |-> TRUE,
              name  |-> Slice(chunk, i + Len(Sentinel), j - 1),
              from  |-> i,
              to    |-> j + Len(Sentinel) - 1]

\* the test of lines 304-306: the chunk is taken as a tool marker
IsToolChunk(chunk) == Includes(chunk, Sentinel) /\ ToolMatch(chunk).found

\* ------------------------------------------------------------------ state
VARIABLES
  messages,          \* useState<Message[]>: sequence of [role, content]
  userMessage,       \* the input box
  developerMessage,
  apiKey,
  tavilyApiKey,
  model,
  isLoading,
  isStreaming,
  currentTool,
  isUsingTool,
  turns,             \* the handleSubmit invocations that passed validation
  lastRequest,       \* the last fetch call of handleSubmit
  nRequests,         \* the number of fetch calls of handleSubmit
  nChunks,           \* stream fragments read so far
  uploadedPDFs,      \* useState<UploadedPDF[]>: sequence of [pdf_id]
  selectedPDF,
  isUploading,
  backendPDFs,       \* the pdf_ids the backend holds
  mountLoad,         \* the loadUploadedPDFs call of the mount effect
  docOps,            \* the handleFileUpload / handleDeletePDF calls
  lastOp,            \* the handler step taken last, with the alert() it showed
  pFrags,            \* fragmentation study: the fragments of one stream text
  pWhole,            \*   the loop's result on the text as one fragment
  pSplit,            \*   the loop's result on the fragments
  pPc,
  backendAnswer,     \* chat-pdf route: what the backend call came to
  routeAnswer        \*   the response the route returned

chatVars == <<messages, userMessage, developerMessage, apiKey, tavilyApiKey, model,
              isLoading, isStreaming, currentTool, isUsingTool, turns, lastRequest,
              nRequests, nChunks>>
docVars  == <<uploadedPDFs, selectedPDF, isUploading, backendPDFs, mountLoad, docOps>>
proxyVars == <<backendAnswer, routeAnswer>>
parseVars == <<pFrags, pWhole, pSplit, pPc, proxyVars>>
vars == <<chatVars, docVars, parseVars, lastOp>>

\* ------------------------------------------------------------------ values
DEFAULT_OPENAI_API_KEY == <<"sk-your-openai-api-key-here">>
DEFAULT_TAVILY_API_KEY == <<"tvly-your-tavily-api-key-here">>

ErrorNotice == <<"Sorry, there was an error processing your request.">>

DefaultPdfSystemMessage == <<"You are a helpful assistant that can answer questions about uploaded PDF documents and search the web ...">>
DefaultSystemMessage == <<"You are a helpful AI assistant. Format your responses using markdown for better readability.">>

QuickMessages ==
  { <<"Extract the most memorable and impactful quotes from this podcast">>,
    <<"Provide a comprehensive summary of this podcast episode">>,
    <<"Create an engaging newsletter based on this podcast content">> }

\* what the user can type or choose
UserTexts         == { <<>>, <<" ">>, <<"h", "i">> }
ApiKeys           == { <<>>, DEFAULT_OPENAI_API_KEY }
TavilyKeys        == { <<>>, <<" ">>, DEFAULT_TAVILY_API_KEY }
DeveloperMessages == { <<>>, <<"d">> }
Models            == { "gpt-4o-mini", "gpt-4o" }
PdfOrder          == << "p1", "p2" >>
PdfIds            == { PdfOrder[k] : k \in 1..Len(PdfOrder) }

\* tool markers and the stream fragments the backend may deliver
Marker(name) == Sentinel \o name \o Sentinel

Chunks ==
  { <<"a">>,                                        \* content
    <<" ">>,                                        \* whitespace-only content
    Marker(<<"s">>),                                \* a marker alone
    Marker(<<"t">>),
    <<"b">> \o Marker(<<"s">>) \o <<"c">>,          \* text around a marker
    Marker(<<"s">>) \o Marker(<<"t">>),             \* two markers
    Sentinel \o <<"s">>,                            \* an opening sentinel and a name
    Sentinel,                                       \* a sentinel alone
    Sentinel \o Sentinel }                          \* a marker with an empty name

\* the fragments of the specification of overlapping turns
TalkChunks == { <<"a">>, <<" ">>, Marker(<<"s">>), Sentinel \o <<"s">> }

PlainChunks == { <<"a">> }

\* the record kept in lastOp; chunk holds the fragment read or the name of the
\* file handed over
Op(name) == [op |-> name, turn |-> 0, chunk |-> <<>>, id |-> "", outcome |-> "", alert |-> <<>>]

NoRequest == [endpoint |-> "", body |-> [model |-> ""]]

\* ------------------------------------------------------------------ chat
\* setMessages(prev => prev.map(...)) of lines 326-332
UpdateLast(prev, content) ==
  [k \in 1..Len(prev) |->
     IF k = Len(prev) /\ prev[k].role = "assistant"
       THEN [prev[k] EXCEPT !.content = content]
       ELSE prev[k]]

\* mutant: the request built for the plain endpoint whatever the selection
RequestFor_AlwaysPlain(text) ==
  [endpoint |-> "/api/chat",
   body |-> [developer_message |-> IF developerMessage # <<>> THEN developerMessage
                                   ELSE DefaultSystemMessage,
             user_message      |-> text,
             model             |-> model,
             api_key           |-> apiKey]]

\* mutant: the system message sent as typed, without the default
RequestFor_NoDefault(text) ==
  IF selectedPDF # ""
    THEN [endpoint |-> "/api/chat-pdf",
          body |-> [message        |-> text,
                    system_message |-> developerMessage,
                    model          |-> model,
                    api_key        |-> apiKey,
                    tavily_api_key |-> tavilyApiKey,
                    pdf_id         |-> selectedPDF]]
    ELSE [endpoint |-> "/api/chat",
          body |-> [developer_message |-> developerMessage,
                    user_message      |-> text,
                    model             |-> model,
                    api_key           |-> apiKey]]

\* endpoint and requestBody of lines 251-268
RequestFor(text) ==
  IF selectedPDF # ""
    THEN [endpoint |-> "/api/chat-pdf",
          body |-> [message        |-> text,
                    system_message |-> IF developerMessage # <<>> THEN developerMessage
                                       ELSE DefaultPdfSystemMessage,
                    model          |-> model,
                    api_key        |-> apiKey,
                    tavily_api_key |-> tavilyApiKey,
                    pdf_id         |-> selectedPDF]]
    ELSE [endpoint |-> "/api/chat",
          body |-> [developer_message |-> IF developerMessage # <<>> THEN developerMessage
                                          ELSE DefaultSystemMessage,
                    user_message      |-> text,
                    model             |-> model,
                    api_key           |-> apiKey]]

\* mutant: the check of the Tavily key (lines 233-236) left out
SubmitRefused_NoTavilyCheck ==
  \/ Trim(userMessage) = <<>>
  \/ Trim(apiKey) = <<>>

\* the early returns of lines 230-236
SubmitRefused ==
  \/ Trim(userMessage) = <<>>
  \/ Trim(apiKey) = <<>>
  \/ (selectedPDF # "" /\ Trim(tavilyApiKey) = <<>>)

\* handleSubmit up to its first await (lines 227-276), called from handler
\* `op`.  boxIfRefused is the content of the input box when the call returns
\* early; maxTurns bounds the turns started.
HandleSubmit(op, boxIfRefused, maxTurns) ==
  IF SubmitRefused
    THEN /\ userMessage' = boxIfRefused
         /\ lastOp' = [Op(op) EXCEPT !.alert =
                         IF Trim(userMessage) # <<>> /\ Trim(apiKey) # <<>>
                           THEN <<"Tavily API key is required for PDF chat with web search capabilities">>
                           ELSE <<>>]
         /\ UNCHANGED <<messages, developerMessage, apiKey, tavilyApiKey, model,
                        isLoading, isStreaming, currentTool, isUsingTool, turns,
                        lastRequest, nRequests, nChunks>>
    ELSE /\ Len(turns) < maxTurns
         /\ messages' = Append(messages, [role |-> "user", content |-> userMessage])
         /\ userMessage' = <<>>
         /\ isLoading' = TRUE
         /\ isStreaming' = TRUE
         /\ lastRequest' = RequestFor(userMessage)
         /\ nRequests' = nRequests + 1
         /\ turns' = Append(turns, [pc |-> "fetch",
                                    assistantMessage |-> <<>>,
                                    isUsingTool |-> isUsingTool,  \* as captured
                                    msgIndex |-> 0,               \* where its message went
                                    plain |-> TRUE,               \* no sentinel received
                                    stream |-> <<>>])             \* the text received
         /\ lastOp' = Op(op)
         /\ UNCHANGED <<developerMessage, apiKey, tavilyApiKey, model, currentTool,
                        isUsingTool, nChunks>>

\* the send button: <button type="submit" disabled={...}> inside the form
SubmitButton(maxTurns) ==
  /\ ~isLoading /\ Trim(userMessage) # <<>> /\ Trim(apiKey) # <<>>
  /\ HandleSubmit("handleSubmit", userMessage, maxTurns)
  /\ UNCHANGED <<docVars, parseVars>>

\* Enter in the textarea: onKeyPress calls handleSubmit(e) (lines 781-786)
EnterKey(maxTurns) ==
  /\ HandleSubmit("handleSubmit", userMessage, maxTurns)
  /\ UNCHANGED <<docVars, parseVars>>

\* handleQuickAction (lines 415-426); the cards are disabled={isLoading || !selectedPDF}.
\* handleSubmit reads the userMessage of the render the card was clicked in.
QuickAction(message, maxTurns) ==
  /\ ~isLoading /\ selectedPDF # ""
  /\ IF Trim(apiKey) = <<>>
       THEN UNCHANGED chatVars /\ lastOp' = Op("handleQuickAction")
       ELSE HandleSubmit("handleQuickAction", message, maxTurns)
  /\ UNCHANGED <<docVars, parseVars>>

\* mutant: the finally block leaves the tool state alone
Finally_KeepsTool ==
  /\ isLoading' = FALSE
  /\ isStreaming' = FALSE
  /\ UNCHANGED <<isUsingTool, currentTool>>

\* finally of lines 341-346
Finally ==
  /\ isLoading' = FALSE
  /\ isStreaming' = FALSE
  /\ isUsingTool' = FALSE
  /\ currentTool' = <<>>

\* mutant: the catch block appends no notice
Fail_Silent(i) ==
  /\ UNCHANGED messages
  /\ turns' = [turns EXCEPT ![i].pc = "failed"]
  /\ Finally

\* catch of lines 334-340, then finally
Fail(i) ==
  /\ messages' = Append(messages, [role |-> "assistant", content |-> ErrorNotice])
  /\ turns' = [turns EXCEPT ![i].pc = "failed"]
  /\ Finally

\* the fetch of lines 270-292 settles
FetchOutcomes == {"ok", "not_ok", "no_body", "rejected"}

FetchResponse(i, outcome) ==
  /\ turns[i].pc = "fetch"
  /\ IF outcome = "ok"
       THEN /\ messages' = Append(messages, [role |-> "assistant", content |-> <<>>])
            /\ turns' = [turns EXCEPT ![i].pc = "read", ![i].msgIndex = Len(messages) + 1]
            /\ UNCHANGED <<isLoading, isStreaming, isUsingTool, currentTool>>
       ELSE Fail(i)
  /\ lastOp' = [Op("fetchResponse") EXCEPT !.turn = i, !.outcome = outcome]
  /\ UNCHANGED <<userMessage, developerMessage, apiKey, tavilyApiKey, model, lastRequest,
                 nRequests, nChunks, docVars, parseVars>>

\* mutant: a content fragment clears isUsingTool and leaves the tool name
LoopBody_KeepsName(loc, chunk) ==
  IF IsToolChunk(chunk)
    THEN [loc EXCEPT !.currentTool = ToolMatch(chunk).name,
                     !.isUsingTool = TRUE,
                     !.tools = Append(@, ToolMatch(chunk).name)]
    ELSE LET cleared == Trim(chunk) # <<>> /\ loc.captured
             text    == loc.assistantMessage \o chunk
         IN [loc EXCEPT !.isUsingTool = IF cleared THEN FALSE ELSE @,
                        !.assistantMessage = text,
                        !.msgs = UpdateLast(@, text)]

\* One pass of the while loop on a fragment (lines 298-332).  loc holds what
\* the pass reads and writes: the local assistantMessage, the isUsingTool of
\* the closure (captured), the React state isUsingTool / currentTool /
\* messages (msgs), and tools, the names given to setCurrentTool so far.
LoopBody(loc, chunk) ==
  IF IsToolChunk(chunk)
    THEN [loc EXCEPT !.currentTool = ToolMatch(chunk).name,
                     !.isUsingTool = TRUE,
                     !.tools = Append(@, ToolMatch(chunk).name)]
    ELSE LET cleared == Trim(chunk) # <<>> /\ loc.captured
             text    == loc.assistantMessage \o chunk
         IN [loc EXCEPT !.isUsingTool = IF cleared THEN FALSE ELSE @,
                        !.currentTool = IF cleared THEN <<>> ELSE @,
                        !.assistantMessage = text,
                        !.msgs = UpdateLast(@, text)]

\* reader.read() delivers a fragment to turn i
ReadChunk(i, chunk) ==
  /\ turns[i].pc = "read"
  /\ nChunks < MaxChunks
  /\ nChunks' = nChunks + 1
  /\ LET r == LoopBody([assistantMessage |-> turns[i].assistantMessage,
                        captured |-> turns[i].isUsingTool,
                        isUsingTool |-> isUsingTool,
                        currentTool |-> currentTool,
                        msgs |-> messages,
                        tools |-> <<>>], chunk)
         isPlain == turns[i].plain /\ ~Includes(chunk, Sentinel)
     IN /\ messages' = r.msgs
        /\ isUsingTool' = r.isUsingTool
        /\ currentTool' = r.currentTool
        /\ turns' = [turns EXCEPT ![i].assistantMessage = r.assistantMessage,
                                  ![i].plain = isPlain,
                                  ![i].stream = @ \o chunk]
  /\ lastOp' = [Op("readChunk") EXCEPT !.turn = i, !.chunk = chunk]
  /\ UNCHANGED <<userMessage, developerMessage, apiKey, tavilyApiKey, model, isLoading,
                 isStreaming, lastRequest, nRequests, docVars, parseVars>>

\* reader.read() reports done: break, then finally
ReadDone(i) ==
  /\ turns[i].pc = "read"
  /\ turns' = [turns EXCEPT ![i].pc = "done"]
  /\ Finally
  /\ lastOp' = [Op("readDone") EXCEPT !.turn = i]
  /\ UNCHANGED <<messages, userMessage, developerMessage, apiKey, tavilyApiKey, model,
                 lastRequest, nRequests, nChunks, docVars, parseVars>>

\* reader.read() rejects: catch, then finally
ReadError(i) ==
  /\ turns[i].pc = "read"
  /\ Fail(i)
  /\ lastOp' = [Op("readError") EXCEPT !.turn = i]
  /\ UNCHANGED <<userMessage, developerMessage, apiKey, tavilyApiKey, model, lastRequest,
                 nRequests, nChunks, docVars, parseVars>>

\* the onChange handlers of the inputs (lines 601, 613, 624, 640, 780)
SetUserMessage(v) ==
  /\ v # userMessage
  /\ userMessage' = v
  /\ lastOp' = Op("edit")
  /\ UNCHANGED <<messages, developerMessage, apiKey, tavilyApiKey, model, isLoading,
                 isStreaming, currentTool, isUsingTool, turns, lastRequest, nRequests,
                 nChunks, docVars, parseVars>>

SetApiKey(v) ==
  /\ v # apiKey
  /\ apiKey' = v
  /\ lastOp' = Op("edit")
  /\ UNCHANGED <<messages, userMessage, developerMessage, tavilyApiKey, model, isLoading,
                 isStreaming, currentTool, isUsingTool, turns, lastRequest, nRequests,
                 nChunks, docVars, parseVars>>

SetTavilyApiKey(v) ==
  /\ v # tavilyApiKey
  /\ tavilyApiKey' = v
  /\ lastOp' = Op("edit")
  /\ UNCHANGED <<messages, userMessage, developerMessage, apiKey, model, isLoading,
                 isStreaming, currentTool, isUsingTool, turns, lastRequest, nRequests,
                 nChunks, docVars, parseVars>>

SetDeveloperMessage(v) ==
  /\ v # developerMessage
  /\ developerMessage' = v
  /\ lastOp' = Op("edit")
  /\ UNCHANGED <<messages, userMessage, apiKey, tavilyApiKey, model, isLoading,
                 isStreaming, currentTool, isUsingTool, turns, lastRequest, nRequests,
                 nChunks, docVars, parseVars>>

SetModel(v) ==
  /\ v # model
  /\ model' = v
  /\ lastOp' = Op("edit")
  /\ UNCHANGED <<messages, userMessage, developerMessage, apiKey, tavilyApiKey, isLoading,
                 isStreaming, currentTool, isUsingTool, turns, lastRequest, nRequests,
                 nChunks, docVars, parseVars>>

\* The stream loop of one turn run on a whole sequence of fragments, from the
\* state the loop starts in when the turn was submitted with no tool shown:
\* messages hold the turn's user message and its empty assistant message.
RECURSIVE RunLoop(_, _)
RunLoop(loc, frags) ==
  IF frags = <<>> THEN loc ELSE RunLoop(LoopBody(loc, Head(frags)), Tail(frags))

StreamLoop(frags) ==
  LET r == RunLoop([assistantMessage |-> <<>>,
                    captured |-> FALSE,
                    isUsingTool |-> FALSE,
                    currentTool |-> <<>>,
                    msgs |-> << [role |-> "user", content |-> <<"h", "i">>],
                                [role |-> "assistant", content |-> <<>>] >>,
                    tools |-> <<>>], frags)
  IN [tools |-> r.tools, content |-> r.msgs[2].content]

\* ------------------------------------------------------------------ documents
\* The backend (api/app.py) behind the proxy routes: it holds a set of
\* documents, lists them in a fixed order, adds one on an accepted upload and
\* removes one on an accepted delete; any call may fail.
BackendList == [k \in 1..Len(SelectSeq(PdfOrder, LAMBDA x : x \in backendPDFs)) |->
                  [pdf_id |-> SelectSeq(PdfOrder, LAMBDA x : x \in backendPDFs)[k]]]

BackendDetails == { "quota exceeded" }

CallOutcomes == {"ok", "not_ok", "rejected"}

\* pdf_ids shown in the list
ListedIds == { uploadedPDFs[k].pdf_id : k \in 1..Len(uploadedPDFs) }

\* file names the file dialog may hand over; <<>> stands for no file
ToLower(c) == CASE c = "P" -> "p" [] c = "D" -> "d" [] c = "F" -> "f" [] OTHER -> c

ToLowerCase(s) == [k \in 1..Len(s) |-> ToLower(s[k])]

EndsWith(s, suffix) ==
  Len(suffix) <= Len(s) /\ Slice(s, Len(s) - Len(suffix) + 1, Len(s)) = suffix

Files == { <<>>, <<"x", ".", "p", "d", "f">>, <<"x", ".", "P", "D", "F">>,
           <<"x", ".", "t", "x", "t">> }

NoLoad == [pc |-> "done", outcome |-> "", data |-> <<>>]

\* GET of src/frontend/app/api/pdfs/route.ts answering a fetch('/api/pdfs'):
\* the backend's list, or status 500 when the backend fails
ListAnswer(outcome) ==
  [pc |-> "served", outcome |-> outcome,
   data |-> IF outcome = "ok" THEN BackendList ELSE <<>>]

\* mutant: the loaded documents are added to the list instead of replacing it
LoadedList_Appends(load) == IF load.outcome = "ok" THEN uploadedPDFs \o load.data ELSE uploadedPDFs

\* loadUploadedPDFs after its fetch settled (lines 137-144)
LoadedList(load) == IF load.outcome = "ok" THEN load.data ELSE uploadedPDFs

\* the mount effect's loadUploadedPDFs (lines 129-145)
MountServe(outcome) ==
  /\ mountLoad.pc = "fetch"
  /\ mountLoad' = ListAnswer(outcome)
  /\ lastOp' = Op("listServed")
  /\ UNCHANGED <<chatVars, uploadedPDFs, selectedPDF, isUploading, backendPDFs, docOps, parseVars>>

MountDeliver ==
  /\ mountLoad.pc = "served"
  /\ uploadedPDFs' = LoadedList(mountLoad)
  /\ mountLoad' = NoLoad
  /\ lastOp' = Op("loadUploadedPDFs")
  /\ UNCHANGED <<chatVars, selectedPDF, isUploading, backendPDFs, docOps,
                 parseVars>>

\* the <select> of lines 503-506: '' or one of the listed documents
SelectPDF(v) ==
  /\ v \in {""} \cup ListedIds
  /\ v # selectedPDF
  /\ selectedPDF' = v
  /\ lastOp' = [Op("setSelectedPDF") EXCEPT !.id = v]
  /\ UNCHANGED <<chatVars, uploadedPDFs, isUploading, backendPDFs, mountLoad, docOps, parseVars>>

NewOp(kind, id) ==
  [kind |-> kind, pc |-> "fetch", id |-> id, sel |-> selectedPDF, load |-> NoLoad]

\* a call that has returned
DoneOp(kind) == [kind |-> kind, pc |-> "done", id |-> "", sel |-> "", load |-> NoLoad]

\* the detail the handlers read from the JSON body of a failed route response
DetailOf(body) == IF "detail" \in DOMAIN body THEN body["detail"] ELSE "undefined"

\* the body the upload and delete routes answer a failed backend call with
\* (upload-pdf/route.ts lines 16-22, part_000 lines 20-26)
RouteError(detail) == [error |-> detail]

\* mutant: the check of the API key (lines 151-154) left out
UploadStart_NoKeyCheck(file) ==
  /\ ~isUploading
  /\ IF file = <<>>
       THEN /\ lastOp' = Op("handleFileUpload")
            /\ UNCHANGED <<isUploading, docOps>>
       ELSE IF ~EndsWith(ToLowerCase(file), <<".", "p", "d", "f">>)
           THEN /\ lastOp' = [Op("handleFileUpload") EXCEPT
                                !.chunk = file,
                                !.alert = <<"Please select a PDF file">>]
                /\ UNCHANGED <<isUploading, docOps>>
           ELSE /\ Len(docOps) < MaxDocOps
                /\ isUploading' = TRUE
                /\ docOps' = Append(docOps, NewOp("upload", ""))
                /\ lastOp' = [Op("handleFileUpload") EXCEPT !.chunk = file, !.outcome = "sent"]
  /\ UNCHANGED <<chatVars, uploadedPDFs, selectedPDF, backendPDFs, mountLoad, parseVars>>

\* handleFileUpload up to its fetch (lines 147-171); the upload button is
\* disabled while isUploading
UploadStart(file) ==
  /\ ~isUploading
  /\ IF file = <<>>
       THEN /\ lastOp' = Op("handleFileUpload")
            /\ UNCHANGED <<isUploading, docOps>>
       ELSE IF Trim(apiKey) = <<>>
         THEN /\ lastOp' = [Op("handleFileUpload") EXCEPT
                              !.chunk = file,
                              !.alert = <<"Please enter your OpenAI API key first">>]
              /\ UNCHANGED <<isUploading, docOps>>
         ELSE IF ~EndsWith(ToLowerCase(file), <<".", "p", "d", "f">>)
           THEN /\ lastOp' = [Op("handleFileUpload") EXCEPT
                                !.chunk = file,
                                !.alert = <<"Please select a PDF file">>]
                /\ UNCHANGED <<isUploading, docOps>>
           ELSE /\ Len(docOps) < MaxDocOps
                /\ isUploading' = TRUE
                /\ docOps' = Append(docOps, NewOp("upload", ""))
                /\ lastOp' = [Op("handleFileUpload") EXCEPT !.chunk = file, !.outcome = "sent"]
  /\ UNCHANGED <<chatVars, uploadedPDFs, selectedPDF, backendPDFs, mountLoad, parseVars>>

\* POST of src/frontend/app/api/upload-pdf/route.ts and lines 173-199: the
\* backend accepts the upload under a new pdf_id, or rejects it with a detail
UploadResponse(k, outcome, id, detail) ==
  /\ docOps[k].kind = "upload" /\ docOps[k].pc = "fetch"
  /\ IF outcome = "ok"
       THEN /\ id \notin backendPDFs
            /\ backendPDFs' = backendPDFs \cup {id}
            /\ docOps' = [docOps EXCEPT ![k].pc = "refresh", ![k].id = id]
            /\ lastOp' = [Op("uploadResponse") EXCEPT !.outcome = outcome, !.id = id]
            /\ UNCHANGED isUploading
       ELSE /\ lastOp' = [Op("uploadResponse") EXCEPT
                 !.outcome = outcome,
                 !.alert = IF outcome = "not_ok"
                             THEN <<"Upload failed: ", DetailOf(RouteError(detail))>>
                             ELSE <<"Upload failed. Please try again.">>]
            /\ isUploading' = FALSE
            /\ docOps' = [docOps EXCEPT ![k] = DoneOp("upload")]
            /\ UNCHANGED backendPDFs
  /\ UNCHANGED <<chatVars, uploadedPDFs, selectedPDF, mountLoad, parseVars>>

\* handleDeletePDF up to its fetch (lines 202-208), on a listed document
DeleteStart(id, confirmed) ==
  /\ id \in ListedIds
  /\ IF confirmed
       THEN /\ Len(docOps) < MaxDocOps
            /\ docOps' = Append(docOps, NewOp("delete", id))
       ELSE UNCHANGED docOps
  /\ lastOp' = [Op("handleDeletePDF") EXCEPT !.id = id]
  /\ UNCHANGED <<chatVars, uploadedPDFs, selectedPDF, isUploading, backendPDFs, mountLoad,
                 parseVars>>

\* mutant: a refused deletion clears the selection all the same
DeleteResponse_ClearsSelection(k, outcome, detail) ==
  /\ docOps[k].kind = "delete" /\ docOps[k].pc = "fetch"
  /\ IF outcome = "ok"
       THEN /\ docOps[k].id \in backendPDFs
            /\ backendPDFs' = backendPDFs \ {docOps[k].id}
            /\ docOps' = [docOps EXCEPT ![k].pc = "refresh"]
            /\ lastOp' = [Op("deleteResponse") EXCEPT !.outcome = outcome,
                                                      !.id = docOps[k].id]
            /\ UNCHANGED selectedPDF
       ELSE /\ lastOp' = [Op("deleteResponse") EXCEPT
                 !.outcome = outcome,
                 !.id = docOps[k].id,
                 !.alert = IF outcome = "not_ok"
                             THEN <<"Delete failed: ", DetailOf(RouteError(detail))>>
                             ELSE <<"Delete failed. Please try again.">>]
            /\ docOps' = [docOps EXCEPT ![k] = DoneOp("delete")]
            /\ selectedPDF' = IF docOps[k].sel = docOps[k].id THEN "" ELSE selectedPDF
            /\ UNCHANGED backendPDFs
  /\ UNCHANGED <<chatVars, uploadedPDFs, isUploading, mountLoad, parseVars>>

\* DELETE of src/unnamed/part_000 and lines 210-223: the backend accepts the
\* deletion of a document it holds, or rejects it with a detail
DeleteResponse(k, outcome, detail) ==
  /\ docOps[k].kind = "delete" /\ docOps[k].pc = "fetch"
  /\ IF outcome = "ok"
       THEN /\ docOps[k].id \in backendPDFs
            /\ backendPDFs' = backendPDFs \ {docOps[k].id}
            /\ docOps' = [docOps EXCEPT ![k].pc = "refresh"]
            /\ lastOp' = [Op("deleteResponse") EXCEPT !.outcome = outcome,
                                                      !.id = docOps[k].id]
       ELSE /\ lastOp' = [Op("deleteResponse") EXCEPT
                 !.outcome = outcome,
                 !.id = docOps[k].id,
                 !.alert = IF outcome = "not_ok"
                             THEN <<"Delete failed: ", DetailOf(RouteError(detail))>>
                             ELSE <<"Delete failed. Please try again.">>]
            /\ docOps' = [docOps EXCEPT ![k] = DoneOp("delete")]
            /\ UNCHANGED backendPDFs
  /\ UNCHANGED <<chatVars, uploadedPDFs, selectedPDF, isUploading, mountLoad, parseVars>>

\* the fetch('/api/pdfs') of the loadUploadedPDFs awaited at line 178 or 211 is answered
RefreshServe(k, outcome) ==
  /\ docOps[k].pc = "refresh"
  /\ docOps' = [docOps EXCEPT ![k].pc = "refreshed", ![k].load = ListAnswer(outcome)]
  /\ lastOp' = Op("listServed")
  /\ UNCHANGED <<chatVars, uploadedPDFs, selectedPDF, isUploading, backendPDFs, mountLoad,
                 parseVars>>

\* the awaited loadUploadedPDFs returns and the handler runs to its end:
\* lines 137-144, then 180-185 and 194-199 (upload) or 212-215 (delete)
RefreshDeliver(k) ==
  /\ docOps[k].pc = "refreshed"
  /\ uploadedPDFs' = LoadedList(docOps[k].load)
  /\ IF docOps[k].kind = "upload"
       THEN /\ selectedPDF' = docOps[k].id
            /\ isUploading' = FALSE
            /\ lastOp' = [Op("uploadDone") EXCEPT
                            !.id = docOps[k].id, !.outcome = docOps[k].load.outcome,
                            !.alert = <<"PDF uploaded successfully! ">>]
       ELSE /\ selectedPDF' = IF docOps[k].sel = docOps[k].id THEN "" ELSE selectedPDF
            /\ lastOp' = [Op("deleteDone") EXCEPT
                            !.id = docOps[k].id, !.outcome = docOps[k].load.outcome,
                            !.alert = <<"PDF deleted successfully">>]
            /\ UNCHANGED isUploading
  /\ docOps' = [docOps EXCEPT ![k] = DoneOp(docOps[k].kind)]
  /\ UNCHANGED <<chatVars, backendPDFs, mountLoad, parseVars>>

\* ------------------------------------------------------------------ fragmentation study
\* stream texts: up to MaxPieces pieces, holding a complete marker
ParsePieces == { <<"a">>, <<" ">>, <<"s">>, Sentinel }

RECURSIVE Concat(_)
Concat(ss) == IF ss = <<>> THEN <<>> ELSE Head(ss) \o Concat(Tail(ss))

ParseTexts ==
  { t \in { Concat(ps) : ps \in UNION { [1..n -> ParsePieces] : n \in 1..MaxPieces } } :
      ToolMatch(t).found }

\* the scenario of the split sentinel
SearchScenario ==
  << <<"b", "e", "f", "o", "r", "e", " ">>,
     Sentinel \o <<"s", "e", "a", "r", "c", "h">> \o <<"_", "_", "T", "O", "O", "L">>,
     <<"_", "U", "S", "A", "G", "E", "_", "_">>,
     <<"a", "f", "t", "e", "r">> >>

\* every text cut at every position, and the scenario
ParseInputs ==
  UNION { { << Slice(t, 1, cut), Slice(t, cut + 1, Len(t)) >> : cut \in 0..Len(t) } :
            t \in ParseTexts }
  \cup { SearchScenario }

NoResult == [tools |-> <<>>, content |-> <<>>]

FeedWhole ==
  /\ pPc = "ready"
  /\ pWhole' = StreamLoop(<< Concat(pFrags) >>)
  /\ pPc' = "whole"
  /\ UNCHANGED <<chatVars, docVars, lastOp, pFrags, pSplit, proxyVars>>

FeedFragments ==
  /\ pPc = "whole"
  /\ pSplit' = StreamLoop(pFrags)
  /\ pPc' = "done"
  /\ UNCHANGED <<chatVars, docVars, lastOp, pFrags, pWhole, proxyVars>>

\* ------------------------------------------------------------------ chat-pdf route
\* what the route's fetch to the backend comes to: a response with a
\* success status and a body stream, a response with another status and an
\* error body, or a rejected call
BackendStatuses == {400, 404, 500}

StreamBodies == UNION { [1..n -> Chunks] : n \in 0..MaxBodyChunks }

ErrorBodies == { << <<"d">> >>, << <<"e">> >> }

BackendAnswers ==
  { [outcome |-> "ok", status |-> 200, body |-> b] : b \in StreamBodies }
  \cup { [outcome |-> "not_ok", status |-> st, body |-> b] :
           st \in BackendStatuses, b \in ErrorBodies }
  \cup { [outcome |-> "rejected", status |-> 0, body |-> <<>>] }

NoAnswer == [status |-> 0, contentType |-> "", body |-> <<>>, error |-> ""]

\* mutant: the backend's response handed on whatever its status
ChatPdfRoute_PassThrough(answer) ==
  IF answer.outcome # "rejected"
    THEN [status |-> answer.status, contentType |-> "text/plain", body |-> answer.body,
          error |-> ""]
    ELSE [status |-> 500, contentType |-> "application/json", body |-> <<>>,
          error |-> "Failed to process request"]

\* POST of src/unnamed/part_001 (lines 4-37)
ChatPdfRoute(answer) ==
  IF answer.outcome = "ok"
    THEN [status |-> 200, contentType |-> "text/plain", body |-> answer.body,
          error |-> ""]
    ELSE [status |-> 500, contentType |-> "application/json", body |-> <<>>,
          error |-> "Failed to process request"]

PostChatPdf ==
  /\ routeAnswer = NoAnswer
  /\ backendAnswer \in BackendAnswers
  /\ routeAnswer' = ChatPdfRoute(backendAnswer)
  /\ UNCHANGED <<chatVars, docVars, lastOp, pFrags, pWhole, pSplit, pPc, backendAnswer>>

\* ------------------------------------------------------------------ specifications
InitPage ==
  /\ messages = <<>>
  /\ userMessage = <<>>
  /\ developerMessage = <<>>
  /\ apiKey = DEFAULT_OPENAI_API_KEY
  /\ tavilyApiKey = DEFAULT_TAVILY_API_KEY
  /\ model = "gpt-4o-mini"
  /\ isLoading = FALSE
  /\ isStreaming = FALSE
  /\ currentTool = <<>>
  /\ isUsingTool = FALSE
  /\ turns = <<>>
  /\ lastRequest = NoRequest
  /\ nRequests = 0
  /\ nChunks = 0
  /\ uploadedPDFs = <<>>
  /\ selectedPDF = ""
  /\ isUploading = FALSE
  /\ mountLoad = [pc |-> "fetch", outcome |-> "", data |-> <<>>]
  /\ docOps = <<>>
  /\ lastOp = Op("mount")

NoProxy ==
  /\ backendAnswer = [outcome |-> "", status |-> 0, body |-> <<>>]
  /\ routeAnswer = NoAnswer

NoStudy ==
  /\ NoProxy
  /\ pFrags = <<>>
  /\ pWhole = NoResult
  /\ pSplit = NoResult
  /\ pPc = "off"

\* the page after mount, the backend holding one document
Init == InitPage /\ NoStudy /\ backendPDFs = {"p1"}

\* the conversation without a document: submissions by the send button and
\* the Enter key, turns that may overlap, and the stream loop
Next ==
  \/ \E v \in {<<>>, <<"h", "i">>} : SetUserMessage(v)
  \/ SubmitButton(MaxTurns)
  \/ EnterKey(MaxTurns)
  \/ \E i \in 1..Len(turns), o \in FetchOutcomes : FetchResponse(i, o)
  \/ \E i \in 1..Len(turns), c \in TalkChunks : ReadChunk(i, c)
  \/ \E i \in 1..Len(turns) : ReadDone(i)
  \/ \E i \in 1..Len(turns) : ReadError(i)

Spec == Init /\ [][Next]_vars

\* the request: every input of the page edited, the stream carrying plain text
NextRequest ==
  \/ \E o \in CallOutcomes : MountServe(o)
  \/ MountDeliver
  \/ \E v \in {""} \cup PdfIds : SelectPDF(v)
  \/ \E v \in UserTexts : SetUserMessage(v)
  \/ \E v \in ApiKeys : SetApiKey(v)
  \/ \E v \in TavilyKeys : SetTavilyApiKey(v)
  \/ \E v \in DeveloperMessages : SetDeveloperMessage(v)
  \/ \E v \in Models : SetModel(v)
  \/ SubmitButton(MaxRequestTurns)
  \/ EnterKey(MaxRequestTurns)
  \/ \E m \in QuickMessages : QuickAction(m, MaxRequestTurns)
  \/ \E i \in 1..Len(turns), o \in FetchOutcomes : FetchResponse(i, o)
  \/ \E i \in 1..Len(turns), c \in PlainChunks : ReadChunk(i, c)
  \/ \E i \in 1..Len(turns) : ReadDone(i)
  \/ \E i \in 1..Len(turns) : ReadError(i)

SpecRequest == Init /\ [][NextRequest]_vars

\* the document registry, the backend holding any set of documents at mount
InitDocs == InitPage /\ NoStudy /\ backendPDFs \in SUBSET PdfIds

NextDocs ==
  \/ \E o \in CallOutcomes : MountServe(o)
  \/ MountDeliver
  \/ \E v \in {""} \cup PdfIds : SelectPDF(v)
  \/ \E v \in ApiKeys : SetApiKey(v)
  \/ \E f \in Files : UploadStart(f)
  \/ \E k \in 1..Len(docOps), o \in CallOutcomes, id \in PdfIds, d \in BackendDetails :
        UploadResponse(k, o, id, d)
  \/ \E id \in PdfIds, c \in BOOLEAN : DeleteStart(id, c)
  \/ \E k \in 1..Len(docOps), o \in CallOutcomes, d \in BackendDetails :
        DeleteResponse(k, o, d)
  \/ \E k \in 1..Len(docOps), o \in CallOutcomes : RefreshServe(k, o)
  \/ \E k \in 1..Len(docOps) : RefreshDeliver(k)

SpecDocs == InitDocs /\ [][NextDocs]_vars

\* the stream loop as a function of the fragments
InitParse ==
  /\ InitPage /\ backendPDFs = {"p1"}
  /\ NoProxy
  /\ pFrags \in ParseInputs
  /\ pWhole = NoResult
  /\ pSplit = NoResult
  /\ pPc = "ready"

NextParse == FeedWhole \/ FeedFragments

SpecParse == InitParse /\ [][NextParse]_vars

\* the chat-pdf route as a function of what the backend call came to
InitProxy ==
  /\ InitPage /\ backendPDFs = {"p1"}
  /\ pFrags = <<>> /\ pWhole = NoResult /\ pSplit = NoResult /\ pPc = "off"
  /\ backendAnswer \in BackendAnswers
  /\ routeAnswer = NoAnswer

NextProxy == PostChatPdf

SpecProxy == InitProxy /\ [][NextProxy]_vars

\* one turn at a time, the stream cut into any fragments: text, markers, text
\* around a marker, several markers, parts of a marker
NextStream ==
  \/ \E v \in {<<>>, <<"h", "i">>} : SetUserMessage(v)
  \/ SubmitButton(MaxRequestTurns)
  \/ \E i \in 1..Len(turns), o \in FetchOutcomes : FetchResponse(i, o)
  \/ \E i \in 1..Len(turns), c \in Chunks : ReadChunk(i, c)
  \/ \E i \in 1..Len(turns) : ReadDone(i)
  \/ \E i \in 1..Len(turns) : ReadError(i)

SpecStream == Init /\ [][NextStream]_vars

\* ------------------------------------------------------------------ properties
InFlight == { i \in 1..Len(turns) : turns[i].pc \in {"fetch", "read"} }

AssistantContents ==
  { messages[k].content : k \in { j \in 1..Len(messages) : messages[j].role = "assistant" } }

\* the text left once the complete markers are taken out, from the left
RECURSIVE Remainder(_)
Remainder(t) ==
  IF ToolMatch(t).found THEN Remainder(Slice(t, ToolMatch(t).to + 1, Len(t))) ELSE t

\* an opening sentinel without its closing counterpart
Dangling(t) == Includes(Remainder(t), Sentinel)

\* C1: boundary independence.  Feeding a text that holds a complete marker to
\* the stream loop as the fragments it was cut into gives the same tool
\* events and the same assistant content as feeding it as one fragment; the
\* split-sentinel scenario gives Content("before "), Tool("search"),
\* Content("after").
C1_BoundaryIndependence ==
  pPc = "done" =>
    /\ pSplit = pWhole
    /\ pFrags = SearchScenario =>
         pSplit = [tools   |-> << <<"s", "e", "a", "r", "c", "h">> >>,
                   content |-> <<"b", "e", "f", "o", "r", "e", " ">>
                               \o <<"a", "f", "t", "e", "r">>]

\* C2: no assistant message ever holds the sentinel: marker text is withheld
\* from the transcript, however the stream is cut into fragments.
C2_NoMarkerTextInTranscript ==
  \A c \in AssistantContents : ~Includes(c, Sentinel)

\* C3: right after the stream loop processed a content fragment (one without
\* the sentinel) holding a non-whitespace character, no tool is shown as running.
C3_IdleAfterContent ==
  (/\ lastOp.op = "readChunk"
   /\ ~Includes(lastOp.chunk, Sentinel)
   /\ Trim(lastOp.chunk) # <<>>) => ~isUsingTool

\* C4: while the fragments a turn received hold no sentinel, and when its
\* stream has ended, the turn's assistant message is the concatenation of the
\* fragments in arrival order.
C4_PlainStreamIsConcatenated ==
  \A i \in 1..Len(turns) :
    (turns[i].pc \in {"read", "done"} /\ turns[i].plain) =>
       messages[turns[i].msgIndex].content = turns[i].stream

\* C5: a turn whose stream ended with an opening sentinel left unterminated
\* ended as a failure, and its assistant message holds no marker text.
C5_DanglingMarkerIsProtocolError ==
  \A i \in 1..Len(turns) :
    (turns[i].pc \in {"done", "failed"} /\ Dangling(turns[i].stream)) =>
       /\ turns[i].pc = "failed"
       /\ ~Includes(messages[turns[i].msgIndex].content, Sentinel)

\* C6: every step keeps the messages of the transcript in place, with their
\* roles, and each content before the step is a prefix of the content after it.
C6_TranscriptAppendOnly ==
  [][ /\ Len(messages') >= Len(messages)
      /\ \A k \in 1..Len(messages) :
           /\ messages'[k].role = messages[k].role
           /\ IsPrefix(messages[k].content, messages'[k].content) ]_vars

\* C7: at most one turn is in flight (request pending or stream not ended).
C7_OneTurnInFlight == Cardinality(InFlight) <= 1

\* C8: the selected document is empty or the pdf_id of a listed document.
C8_SelectionResolves == selectedPDF = "" \/ selectedPDF \in ListedIds

\* C9: when handleDeletePDF(id) completes after the backend accepted the
\* deletion, and id was the selection, the selection is empty and the list
\* no longer holds id.
C9_DeleteClearsSelection ==
  [][ (lastOp'.op = "deleteDone" /\ selectedPDF = lastOp'.id) =>
        (selectedPDF' = "" /\ lastOp'.id \notin { uploadedPDFs'[k].pdf_id : k \in 1..Len(uploadedPDFs') }) ]_vars

\* C10: a submission whose text is blank, or made with a document selected
\* and a blank Tavily key, changes neither the transcript, the loading and
\* streaming flags nor the tool state, and sends no request.
C10_RefusedSubmissionIsNoOp ==
  [][ (/\ lastOp'.op \in {"handleSubmit", "handleQuickAction"}
       /\ \/ Trim(userMessage) = <<>>
          \/ (selectedPDF # "" /\ Trim(tavilyApiKey) = <<>>))
      => UNCHANGED <<messages, isLoading, isStreaming, isUsingTool, currentTool,
                     turns, nRequests, lastRequest>> ]_vars

\* C10 witness: a submission with a document selected was refused for the
\* blank Tavily key, while an earlier turn had been sent
C10_Witness ==
  /\ lastOp.op \in {"handleSubmit", "handleQuickAction"}
  /\ lastOp.alert # <<>>
  /\ selectedPDF # ""
  /\ Trim(tavilyApiKey) = <<>>
  /\ Trim(userMessage) # <<>>
  /\ nRequests = 1

\* the notice the catch block appends
FailureNotice == [role |-> "assistant", content |-> ErrorNotice]

\* the handler step taken last ended a turn by failure / ended a turn
FailedStep(op) ==
  op.op = "readError" \/ (op.op = "fetchResponse" /\ op.outcome # "ok")

EndOfTurnStep(op) == op.op = "readDone" \/ FailedStep(op)

\* C11: a turn that fails (the response is not ok, has no body, the fetch or a
\* read of the stream rejects) ends with the failure notice as the last
\* message of the transcript and no tool shown, and the step sends no request.
C11_FailureEndsWithNotice ==
  [][ FailedStep(lastOp') =>
        /\ messages' # <<>>
        /\ messages'[Len(messages')] = FailureNotice
        /\ ~isUsingTool' /\ currentTool' = <<>>
        /\ nRequests' = nRequests /\ lastRequest' = lastRequest ]_vars

\* C11 witness: the read of a stream failed after a tool marker had been
\* received, and the notice is the last message
C11_Witness ==
  /\ lastOp.op = "readError"
  /\ turns[lastOp.turn].stream = Marker(<<"s">>)
  /\ messages[Len(messages)] = FailureNotice
  /\ nRequests = 1

\* C12: right after a turn ended, normally or by failure, and whenever no
\* turn is in flight, no tool is shown: isUsingTool is false and currentTool
\* is empty.
C12_IdleAtEndOfTurn ==
  (EndOfTurnStep(lastOp) \/ InFlight = {}) => (~isUsingTool /\ currentTool = <<>>)

\* C12 witness: a stream ended normally right after a tool marker, so the
\* tool was shown when the turn ended
C12_Witness ==
  /\ lastOp.op = "readDone"
  /\ turns[lastOp.turn].stream = <<"a">> \o Marker(<<"s">>)
  /\ InFlight = {}

\* C13: isUsingTool is false exactly when currentTool is empty.
C13_ToolNameIffActive == isUsingTool <=> currentTool # <<>>

\* C13 witness: a turn submitted while a tool was shown received a content
\* fragment, which cleared the tool state while both turns were in flight
C13_Witness ==
  /\ lastOp.op = "readChunk"
  /\ turns[lastOp.turn].isUsingTool
  /\ lastOp.chunk = <<"a">>
  /\ ~isUsingTool
  /\ Cardinality(InFlight) = 2

\* C14: the request a submission sends is determined by the selection at
\* that moment: with a document selected it goes to /api/chat-pdf with exactly
\* message, system_message, model, api_key, tavily_api_key and pdf_id, the
\* pdf_id being the selection; with none selected it goes to /api/chat with
\* exactly developer_message, user_message, model and api_key.
C14_RequestFollowsSelection ==
  [][ nRequests' = nRequests + 1 =>
        IF selectedPDF # ""
          THEN /\ lastRequest'.endpoint = "/api/chat-pdf"
               /\ DOMAIN lastRequest'.body =
                    {"message", "system_message", "model", "api_key", "tavily_api_key", "pdf_id"}
               /\ lastRequest'.body.pdf_id = selectedPDF
          ELSE /\ lastRequest'.endpoint = "/api/chat"
               /\ DOMAIN lastRequest'.body =
                    {"developer_message", "user_message", "model", "api_key"} ]_vars

\* C14 witness: a message typed and sent with document p1 selected
C14_Witness ==
  /\ lastOp.op = "handleSubmit"
  /\ nRequests = 1
  /\ selectedPDF = "p1"
  /\ lastRequest.endpoint = "/api/chat-pdf"
  /\ lastRequest.body.pdf_id = "p1"
  /\ lastRequest.body.message = <<"h", "i">>

\* turns whose stream has ended and that got an assistant message
EndedTurns == { i \in 1..Len(turns) : turns[i].pc \in {"done", "failed"} /\ turns[i].msgIndex # 0 }

\* C15: no step changes the content of the assistant message of a turn whose
\* stream has ended, nor the content of a user message.
C15_EndedTurnIsImmutable ==
  [][ /\ \A i \in EndedTurns :
           messages'[turns[i].msgIndex].content = messages[turns[i].msgIndex].content
      /\ \A k \in 1..Len(messages) :
           messages[k].role = "user" => messages'[k] = messages[k] ]_vars

\* C16: the step in which an upload or a delete fails (the route answers
\* non-success, or the fetch rejects) leaves the document list and the
\* selection as they were.
C16_FailedRegistryOpIsNoOp ==
  [][ (lastOp'.op \in {"uploadResponse", "deleteResponse"} /\ lastOp'.outcome # "ok")
        => UNCHANGED <<uploadedPDFs, selectedPDF>> ]_vars

\* C16 witness: the deletion of the selected document was refused, and the
\* document is still listed and selected
C16_Witness ==
  /\ lastOp.op = "deleteResponse"
  /\ lastOp.outcome = "not_ok"
  /\ lastOp.alert = <<"Delete failed: ", "undefined">>
  /\ selectedPDF = lastOp.id
  /\ lastOp.id \in ListedIds

\* C17: a quick action clicked while a document is selected, both keys are
\* set and no turn is loading starts one turn, whose user message in the
\* transcript and in the request is the action's message.
C17_QuickActionSendsItsMessage ==
  [][ (/\ lastOp'.op = "handleQuickAction"
       /\ ~isLoading /\ selectedPDF # ""
       /\ Trim(apiKey) # <<>> /\ Trim(tavilyApiKey) # <<>>)
      => /\ Len(turns') = Len(turns) + 1
         /\ nRequests' = nRequests + 1
         /\ Len(messages') = Len(messages) + 1
         /\ \E m \in QuickMessages :
              /\ messages'[Len(messages')] = [role |-> "user", content |-> m]
              /\ lastRequest'.body.message = m ]_vars

\* a text read from the left, marker by marker: the name of its last complete
\* marker and the text that follows it
RECURSIVE LastMarker(_)
LastMarker(t) ==
  IF ~ToolMatch(t).found
    THEN [found |-> FALSE, name |-> <<>>, rest |-> t]
    ELSE LET after == Slice(t, ToolMatch(t).to + 1, Len(t))
         IN IF ToolMatch(after).found
              THEN LastMarker(after)
              ELSE [found |-> TRUE, name |-> ToolMatch(t).name, rest |-> after]

\* a text without its complete markers
RECURSIVE Stripped(_)
Stripped(t) ==
  IF ~ToolMatch(t).found THEN t
  ELSE Slice(t, 1, ToolMatch(t).from - 1) \o Stripped(Slice(t, ToolMatch(t).to + 1, Len(t)))

\* C18: once the stream loop has processed the fragment that completes a
\* tool marker for name n, the marker being the last thing received, the tool
\* shown is n, whether no tool or another tool was shown before.
C18_MarkerSetsTool ==
  (/\ lastOp.op = "readChunk"
   /\ LastMarker(turns[lastOp.turn].stream).found
   /\ LastMarker(turns[lastOp.turn].stream).rest = <<>>)
  => (isUsingTool /\ currentTool = LastMarker(turns[lastOp.turn].stream).name)

C20_TextAroundMarkerIsKept ==
  [][ (/\ lastOp'.op = "readChunk"
       /\ ToolMatch(lastOp'.chunk).found
       /\ ~Includes(Stripped(lastOp'.chunk), Sentinel))
      => messages'[turns[lastOp'.turn].msgIndex].content
           = messages[turns[lastOp'.turn].msgIndex].content \o Stripped(lastOp'.chunk) ]_vars

\* the text that follows the first complete marker of a text
AfterFirstMarker(t) == Slice(t, ToolMatch(t).to + 1, Len(t))

\* C21: after a fragment that holds two or more complete markers and nothing
\* after the last of them, the tool shown is the one the last marker names.
C21_LastMarkerOfFragmentWins ==
  (/\ lastOp.op = "readChunk"
   /\ ToolMatch(lastOp.chunk).found
   /\ ToolMatch(AfterFirstMarker(lastOp.chunk)).found
   /\ LastMarker(lastOp.chunk).rest = <<>>)
  => (isUsingTool /\ currentTool = LastMarker(lastOp.chunk).name)

\* C22: a fragment without the sentinel that is empty or whitespace-only
\* leaves isUsingTool and currentTool as they were; one received while no tool
\* is shown leaves no tool shown; in both cases the fragment is appended to
\* the assistant message of its turn.
C22_BenignContentKeepsToolState ==
  [][ (lastOp'.op = "readChunk" /\ ~Includes(lastOp'.chunk, Sentinel)) =>
        /\ Trim(lastOp'.chunk) = <<>> => UNCHANGED <<isUsingTool, currentTool>>
        /\ ~isUsingTool => (~isUsingTool' /\ currentTool' = <<>>)
        /\ (Trim(lastOp'.chunk) = <<>> \/ ~isUsingTool) =>
             messages'[turns[lastOp'.turn].msgIndex].content
               = messages[turns[lastOp'.turn].msgIndex].content \o lastOp'.chunk ]_vars

\* a text read from the left holds a marker with an empty name: an opening
\* sentinel directly followed by its closing sentinel
RECURSIVE HasEmptyMarker(_)
HasEmptyMarker(t) ==
  IF Occurrences(t, Sentinel) = {} THEN FALSE
  ELSE LET i      == Min(Occurrences(t, Sentinel))
           closes == {j \in Occurrences(t, Sentinel) : j >= i + Len(Sentinel)}
       IN IF closes = {} THEN FALSE
          ELSE IF Min(closes) = i + Len(Sentinel) THEN TRUE
          ELSE HasEmptyMarker(Slice(t, Min(closes) + Len(Sentinel), Len(t)))

\* C23: the tool state never is (running, empty name), and a turn whose
\* stream held a marker with an empty name ended as a failure, its assistant
\* message holding no sentinel.
C23_EmptyNameIsProtocolError ==
  /\ ~(isUsingTool /\ currentTool = <<>>)
  /\ \A i \in 1..Len(turns) :
       (turns[i].pc \in {"done", "failed"} /\ HasEmptyMarker(turns[i].stream)) =>
          /\ turns[i].pc = "failed"
          /\ messages[Len(messages)] = FailureNotice
          /\ turns[i].msgIndex # 0 => ~Includes(messages[turns[i].msgIndex].content, Sentinel)

\* C24: a fragment without the sentinel read on the stream of a turn is
\* appended to the assistant message created for that turn, and the step
\* changes no other message.
C24_TextGoesToOwnMessage ==
  [][ (lastOp'.op = "readChunk" /\ ~Includes(lastOp'.chunk, Sentinel)) =>
        messages' = [messages EXCEPT ![turns[lastOp'.turn].msgIndex].content =
                                        @ \o lastOp'.chunk] ]_vars

\* C25: the system message of every request sent is the one typed in the
\* settings when there is one, and otherwise the default text of the endpoint
\* the request goes to; it is never empty.
C25_SystemMessageDefaulted ==
  [][ nRequests' = nRequests + 1 =>
        LET body == lastRequest'.body
            sent == IF lastRequest'.endpoint = "/api/chat-pdf"
                      THEN body.system_message ELSE body.developer_message
        IN /\ sent # <<>>
           /\ developerMessage # <<>> => sent = developerMessage
           /\ (developerMessage = <<>> /\ selectedPDF # "") => sent = DefaultPdfSystemMessage
           /\ (developerMessage = <<>> /\ selectedPDF = "") => sent = DefaultSystemMessage ]_vars

\* C25 witness: a request sent to the document endpoint with no system
\* message typed carries the PDF-assistant default
C25_Witness ==
  /\ nRequests = 1
  /\ Len(turns) = 1 /\ turns[1].pc = "fetch"
  /\ developerMessage = <<>>
  /\ lastRequest.endpoint = "/api/chat-pdf"
  /\ lastRequest.body.system_message = DefaultPdfSystemMessage

\* nothing of a turn is shown: not loading, not streaming, no tool
Quiet == ~isLoading /\ ~isStreaming /\ ~isUsingTool /\ currentTool = <<>>

\* C26: the step that ends a turn leaves the page not loading, not streaming
\* and with no tool shown, and from a turn's end on the page stays so in
\* every step that starts no turn.
C26_QuietFromEndOfTurn ==
  [][ /\ EndOfTurnStep(lastOp') => Quiet'
      /\ (/\ \E i \in 1..Len(turns) : turns[i].pc \in {"done", "failed"}
          /\ Len(turns') = Len(turns)
          /\ Quiet) => Quiet' ]_vars

\* C27: isLoading and isStreaming are true exactly while a turn is in flight.
C27_LoadingIffInFlight ==
  /\ isLoading <=> InFlight # {}
  /\ isStreaming <=> InFlight # {}

\* C28: the chat-pdf route answers a backend response without a success
\* status, and a rejected backend call, with status 500 and a JSON error
\* body, handing on nothing of the backend's body; it answers a successful
\* one with the backend's body, fragment by fragment, as text/plain.
C28_ChatPdfRouteAnswers ==
  routeAnswer # NoAnswer =>
    IF backendAnswer.outcome = "ok"
      THEN /\ routeAnswer.body = backendAnswer.body
           /\ routeAnswer.contentType = "text/plain"
           /\ routeAnswer.error = ""
      ELSE /\ routeAnswer.status = 500
           /\ routeAnswer.contentType = "application/json"
           /\ routeAnswer.error # ""
           /\ routeAnswer.body = <<>>

\* C28 witness: the backend answered 404 with an error body and the route
\* answered 500
C28_Witness ==
  /\ backendAnswer.outcome = "not_ok"
  /\ backendAnswer.status = 404
  /\ backendAnswer.body # <<>>
  /\ routeAnswer.status = 500

\* C29: when the backend rejects an upload or a delete with a detail, the
\* alert the handler shows holds that detail.
C29_AlertHoldsBackendDetail ==
  (lastOp.op \in {"uploadResponse", "deleteResponse"} /\ lastOp.outcome = "not_ok")
    => \E d \in BackendDetails : lastOp.alert[2] = d

\* the handleFileUpload calls that have not returned
PendingUploads == { k \in 1..Len(docOps) : docOps[k].kind = "upload" /\ docOps[k].pc # "done" }

\* C30: handleFileUpload called with no file, with a blank API key or with a
\* file whose name does not end in .pdf (in any case of the letters) starts
\* no request and leaves isUploading, the list and the selection as they
\* were; isUploading is true while an upload is pending and false once the
\* call has returned, whether it failed or succeeded.
C30_UploadValidationAndFlag ==
  [][ /\ (/\ lastOp'.op = "handleFileUpload"
          /\ \/ lastOp'.chunk = <<>>
             \/ Trim(apiKey) = <<>>
             \/ ~EndsWith(ToLowerCase(lastOp'.chunk), <<".", "p", "d", "f">>))
         => UNCHANGED <<isUploading, uploadedPDFs, selectedPDF, docOps, backendPDFs>>
      /\ isUploading' <=> PendingUploads' # {}
      /\ (\/ lastOp'.op = "uploadDone"
          \/ (lastOp'.op = "uploadResponse" /\ lastOp'.outcome # "ok")) => ~isUploading' ]_vars

\* C30 witness: after an upload that failed, a PDF file handed over with a
\* blank API key was refused
C30_Witness ==
  /\ lastOp.op = "handleFileUpload"
  /\ lastOp.chunk = <<"x", ".", "P", "D", "F">>
  /\ Trim(apiKey) = <<>>
  /\ lastOp.alert = <<"Please enter your OpenAI API key first">>
  /\ docOps # <<>>
  /\ ~isUploading

====
